---- MODULE Spec2Model ----
(***************************************************************************)
(* Model of src/trend.py: class RangeFilter (range size estimation, the    *)
(* range filter ratchet, the trend direction and the loop of run()).       *)
(*                                                                         *)
(* Numbers.  The program computes in IEEE floating point.  A value is      *)
(* modelled as a pair <<n, d>> of integers with d >= 0 in lowest terms:    *)
(*   d > 0          the rational n/d                                       *)
(*   <<1, 0>>       +inf      <<-1, 0>>  -inf      <<0, 0>>  NaN           *)
(* Arithmetic is exact on rationals (rounding error is not modelled) and   *)
(* follows IEEE on the three special values; comparisons with NaN are      *)
(* false, as in the program.  The square root is rounded down to a grid.   *)
(*                                                                         *)
(* Indices.  The program's bar index i runs from 0; sequences here are     *)
(* 1-based, so the program's data.iloc[i] is data[i + 1].                  *)
(*                                                                         *)
(* The colours (filt_color, bar_color) and the plot are not modelled; the  *)
(* 'open' column is never read by the program and is left out of a bar.    *)
(***************************************************************************)
EXTENDS Integers, Sequences, FiniteSets

(***************************************************************************)
(* Bounds of the model.                                                    *)
(***************************************************************************)
MaxBars == 3
MaxPer == 2
SqrtGrid == 1000

(***************************************************************************)
(* Floating point values.                                                  *)
(***************************************************************************)
NaN == <<0, 0>>
PosInf == <<1, 0>>
NegInf == <<-1, 0>>
Zero == <<0, 1>>

AbsInt(n) == IF n < 0 THEN -n ELSE n

SignInt(n) == IF n > 0 THEN 1 ELSE IF n < 0 THEN -1 ELSE 0

RECURSIVE GCD(_, _)
GCD(a, b) == IF b = 0 THEN a ELSE GCD(b, a % b)

\* n/d in lowest terms, d >= 0 on entry; n/0 is an infinity or NaN.
Norm(n, d) ==
  IF d = 0 THEN <<SignInt(n), 0>>
  ELSE LET g == GCD(AbsInt(n), d) IN <<n \div g, d \div g>>

Num(k) == <<k, 1>>

Frac(n, d) == Norm(n, d)

IsNaN(a) == a = NaN

IsFinite(a) == a[2] > 0

Neg(a) == <<-a[1], a[2]>>

Add(a, b) ==
  IF a[2] = 0 /\ b[2] = 0
    THEN (IF a[1] = b[1] THEN a ELSE NaN)
    ELSE LET g == GCD(a[2], b[2])
             bq == b[2] \div g
             aq == a[2] \div g
         IN  Norm(a[1] * bq + b[1] * aq, a[2] * bq)

Sub(a, b) == Add(a, Neg(b))

Mul(a, b) == Norm(a[1] * b[1], a[2] * b[2])

Div(a, b) ==
  IF b[1] < 0 THEN Norm(-(a[1] * b[2]), a[2] * (-b[1]))
              ELSE Norm(a[1] * b[2], a[2] * b[1])

Abs(a) == <<AbsInt(a[1]), a[2]>>

\* IEEE comparisons: every ordered comparison with NaN is false, != is true.
Gt(a, b) ==
  IF IsNaN(a) \/ IsNaN(b) THEN FALSE
  ELSE IF a[2] = 0 /\ b[2] = 0 THEN a[1] > b[1]
  ELSE a[1] * b[2] > b[1] * a[2]

Lt(a, b) == Gt(b, a)

Eq(a, b) == ~IsNaN(a) /\ ~IsNaN(b) /\ a = b

Ne(a, b) == ~Eq(a, b)

Ge(a, b) == Gt(a, b) \/ Eq(a, b)

Le(a, b) == Ge(b, a)

\* np.floor: the largest integer not above a; inf and NaN are kept.
Floor(a) == IF a[2] = 0 THEN a ELSE <<a[1] \div a[2], 1>>

RECURSIVE IsqrtFrom(_, _)
IsqrtFrom(n, x) ==
  LET y == (x + n \div x) \div 2 IN IF y >= x THEN x ELSE IsqrtFrom(n, y)

\* the integer square root, by Newton's iteration from above
Isqrt(n) == IF n <= 0 THEN 0 ELSE IsqrtFrom(n, n)

\* np.sqrt, rounded down to a multiple of 1/SqrtGrid (exact on the squares of
\* multiples of 1/SqrtGrid); NaN for NaN and for negative arguments.
Sqrt(a) ==
  IF a[2] = 0 THEN (IF a[1] = 1 THEN PosInf ELSE NaN)
  ELSE IF a[1] < 0 THEN NaN
  ELSE Norm(Isqrt((a[1] * SqrtGrid * SqrtGrid) \div a[2]), SqrtGrid)

RECURSIVE SumSeq(_)
SumSeq(s) == IF s = <<>> THEN Zero ELSE Add(s[1], SumSeq(Tail(s)))

\* np.mean of a non-empty list
Mean(s) == Div(SumSeq(s), Num(Len(s)))

\* Python's max(a, b, c): the first argument is kept unless a later one is
\* strictly greater, so a NaN is kept or skipped according to its position.
PyMax3(a, b, c) ==
  LET m == IF Gt(b, a) THEN b ELSE a IN IF Gt(c, m) THEN c ELSE m

(***************************************************************************)
(* The configuration and the input (RangeFilter.__init__).                 *)
(***************************************************************************)
VARIABLES
  cfg,    \* self.f_type, self.mov_src, self.rng_qty, self.rng_scale, ...
  data,   \* self.data: the bars, each [high, low, close]
  pc,     \* "constructed", "loop", "done" or "error" (an exception left run())
  i,      \* the loop index of run(): the number of bars processed
  est,    \* run()'s locals prev_ac, prev_atr, prev_sd, sd_list (ac_list is
          \* passed around but never read or written, and is left out)
  rat,    \* run()'s locals rfilt_prev, prev_rng_smooth, filt_change_count,
          \* filt_change_values
  out,    \* self.filt, self.h_band, self.l_band, self.fdir, self.upward,
          \* self.downward
  log     \* per processed bar, the locals of that iteration (history)

vars == <<cfg, data, pc, i, est, rat, out, log>>

FTypes == {"Type 1", "Type 2"}

MovSrcs == {"Close", "Wicks"}

RngScales == {"Points", "Pips", "Ticks", "% of Price", "ATR", "Average Change",
              "Standard Deviation", "Absolute"}

\* data[column].iloc[k]
Col(d, column, k) == d[k + 1][column]

(***************************************************************************)
(* Cond_EMA, Cond_SMA, Stdev.                                              *)
(***************************************************************************)
\* k = 2 / (n + 1) divides two Python ints: n = -1 raises ZeroDivisionError.
EmaRaises(n) == n + 1 = 0

Cond_EMA(x, cond, n, prev_ema) ==
  LET k == Div(Num(2), Num(n + 1))
  IN  IF cond
        THEN IF IsNaN(prev_ema) THEN x
             ELSE Add(Mul(Sub(x, prev_ema), k), prev_ema)
        ELSE prev_ema

Cond_SMA(x_list) == IF Len(x_list) = 0 THEN NaN ELSE Mean(x_list)

Stdev(x_list, mean) ==
  IF Len(x_list) = 0 THEN NaN
  ELSE Sqrt(Mean([k \in 1..Len(x_list) |->
                    Mul(Sub(x_list[k], mean), Sub(x_list[k], mean))]))

(***************************************************************************)
(* rng_size.                                                               *)
(***************************************************************************)
TrueRange(d, k) ==
  IF k = 0 THEN Sub(Col(d, "high", k), Col(d, "low", k))
  ELSE PyMax3(Sub(Col(d, "high", k), Col(d, "low", k)),
              Abs(Sub(Col(d, "high", k), Col(d, "close", k - 1))),
              Abs(Sub(Col(d, "low", k), Col(d, "close", k - 1))))

\* AbsChange with iloc[-1] for iloc[i - 1]: the last bar for the previous one
AbsChange_LastBar(d, x, k) ==
  IF k = 0 THEN Zero
  ELSE Abs(Sub(x, Div(Add(Col(d, "high", Len(d) - 1), Col(d, "low", Len(d) - 1)), Num(2))))

AbsChange(d, x, k) ==
  IF k = 0 THEN Zero
  ELSE Abs(Sub(x, Div(Add(Col(d, "high", k - 1), Col(d, "low", k - 1)), Num(2))))

\* SdListPush with pop() for pop(0): the newest value is dropped
SdListPush_PopLast(sd_list, x, n) ==
  LET a == Append(sd_list, x) IN IF Len(a) > n THEN SubSeq(a, 1, Len(a) - 1) ELSE a

\* sd_list.append(x); if len(sd_list) > n: sd_list.pop(0)
SdListPush(sd_list, x, n) ==
  LET a == Append(sd_list, x) IN IF Len(a) > n THEN Tail(a) ELSE a

ScaleRange(c, d, k, prev_ac, prev_atr, prev_sd) ==
  LET qty == c.rng_qty
      scale == c.rng_scale
  IN  IF scale = "Pips" THEN Mul(qty, Frac(1, 10000))
      ELSE IF scale = "Points" THEN Mul(qty, Num(1))
      ELSE IF scale = "% of Price" THEN Div(Mul(Col(d, "close", k), qty), Num(100))
      ELSE IF scale = "ATR" THEN Mul(qty, prev_atr)
      ELSE IF scale = "Average Change" THEN Mul(qty, prev_ac)
      ELSE IF scale = "Standard Deviation" THEN Mul(qty, prev_sd)
      ELSE IF scale = "Ticks" THEN Mul(qty, Frac(1, 100))
      ELSE qty

rng_size(c, d, x, k, e) ==
  LET n == c.rng_per
      prev_atr == Cond_EMA(TrueRange(d, k), TRUE, n, e.prev_atr)
      prev_ac == Cond_EMA(AbsChange(d, x, k), TRUE, n, e.prev_ac)
      sd_list == SdListPush(e.sd_list, x, n)
      mean_sd == Cond_SMA(sd_list)
      prev_sd == Stdev(sd_list, mean_sd)
  IN  [rng_size |-> ScaleRange(c, d, k, prev_ac, prev_atr, prev_sd),
       est |-> [prev_ac |-> prev_ac, prev_atr |-> prev_atr,
                prev_sd |-> prev_sd, sd_list |-> sd_list]]

(***************************************************************************)
(* rng_filt.                                                               *)
(***************************************************************************)
\* Type1 with the downward test first
Type1_DownFirst(h, l, r, rfilt_prev) ==
  IF Lt(Add(l, r), rfilt_prev) THEN Add(l, r)
  ELSE IF Gt(Sub(h, r), rfilt_prev) THEN Sub(h, r)
  ELSE rfilt_prev

Type1(h, l, r, rfilt_prev) ==
  IF Gt(Sub(h, r), rfilt_prev) THEN Sub(h, r)
  ELSE IF Lt(Add(l, r), rfilt_prev) THEN Add(l, r)
  ELSE rfilt_prev

Type2(h, l, r, rfilt_prev) ==
  IF Ge(h, Add(rfilt_prev, r))
    THEN Add(rfilt_prev, Mul(Floor(Div(Abs(Sub(h, rfilt_prev)), r)), r))
  ELSE IF Le(l, Sub(rfilt_prev, r))
    THEN Sub(rfilt_prev, Mul(Floor(Div(Abs(Sub(l, rfilt_prev)), r)), r))
  ELSE rfilt_prev

Ratchet(f_type, h, l, r, rfilt_prev) ==
  IF IsNaN(rfilt_prev) THEN Div(Add(h, l), Num(2))
  ELSE IF f_type = "Type 1" THEN Type1(h, l, r, rfilt_prev)
  ELSE IF f_type = "Type 2" THEN Type2(h, l, r, rfilt_prev)
  ELSE rfilt_prev

\* filt_change_values.append(rfilt); if len(...) > av_n: filt_change_values.pop(0)
FiltChangePush(filt_change_values, rfilt, av_n) ==
  LET a == Append(filt_change_values, rfilt)
  IN  IF Len(a) > av_n THEN Tail(a) ELSE a

\* BandCentre without the recomputation of the bands under averaging
BandCentre_Anchor(av_rf, rfilt, rng_filt_value) == rfilt

\* the value the emitted bands are built around: rfilt, or the average when
\* av_rf recomputes the bands
BandCentre(av_rf, rfilt, rng_filt_value) == IF av_rf THEN rng_filt_value ELSE rfilt

HiBand(centre, r) == Add(centre, r)

LoBand(centre, r) == Sub(centre, r)

\* NextRfiltPrev keeping the emitted average instead of the anchor
NextRfiltPrev_Average(rfilt, rng_filt_value) == rng_filt_value

\* the value kept for the next bar's comparison (rfilt_prev = rfilt)
NextRfiltPrev(rfilt, rng_filt_value) == rfilt

rng_filt(c, h, l, rng_size_value, t) ==
  LET prev_rng_smooth == Cond_EMA(rng_size_value, TRUE, c.smooth_per, t.prev_rng_smooth)
      r == IF c.smooth_range THEN prev_rng_smooth ELSE rng_size_value
      rfilt == Ratchet(c.f_type, h, l, r, t.rfilt_prev)
      filt_changed == Ne(rfilt, t.rfilt_prev)
      values == IF c.av_vals /\ filt_changed
                  THEN FiltChangePush(t.filt_change_values, rfilt, c.av_samples)
                  ELSE t.filt_change_values
      count == IF c.av_vals /\ filt_changed
                 THEN t.filt_change_count + 1 ELSE t.filt_change_count
      rng_filt_value == IF c.av_vals
                          THEN (IF values # <<>> THEN Mean(values) ELSE rfilt)
                          ELSE rfilt
  IN  [hi_band |-> HiBand(BandCentre(c.av_vals, rfilt, rng_filt_value), r),
       lo_band |-> LoBand(BandCentre(c.av_vals, rfilt, rng_filt_value), r),
       rng_filt_value |-> rng_filt_value,
       r |-> r, rfilt |-> rfilt, filt_changed |-> filt_changed,
       rat |-> [rfilt_prev |-> NextRfiltPrev(rfilt, rng_filt_value),
                prev_rng_smooth |-> prev_rng_smooth,
                filt_change_count |-> count,
                filt_change_values |-> values]]

(***************************************************************************)
(* run(): the loop over the bars.                                          *)
(***************************************************************************)
MovHigh(c, d, k) == IF c.mov_src = "Wicks" THEN Col(d, "high", k) ELSE Col(d, "close", k)

MovLow(c, d, k) == IF c.mov_src = "Wicks" THEN Col(d, "low", k) ELSE Col(d, "close", k)

\* Direction with a tie counted as a rise (>= for >)
Direction_GeRise(k, filt_i, filt_before, fdir_before) ==
  IF k = 0 THEN 0
  ELSE IF Ge(filt_i, filt_before) THEN 1
  ELSE IF Lt(filt_i, filt_before) THEN -1
  ELSE fdir_before

\* Direction with a tie reset to 0 instead of carried
Direction_TieZero(k, filt_i, filt_before, fdir_before) ==
  IF k = 0 THEN 0
  ELSE IF Gt(filt_i, filt_before) THEN 1
  ELSE IF Lt(filt_i, filt_before) THEN -1
  ELSE 0

\* self.fdir[i], from self.filt[i], self.filt[i - 1] and self.fdir[i - 1]
Direction(k, filt_i, filt_before, fdir_before) ==
  IF k = 0 THEN 0
  ELSE IF Gt(filt_i, filt_before) THEN 1
  ELSE IF Lt(filt_i, filt_before) THEN -1
  ELSE fdir_before

Upward(fdir_i) == IF fdir_i = 1 THEN 1 ELSE 0

Downward(fdir_i) == IF fdir_i = -1 THEN 1 ELSE 0

\* the locals of run() before the loop
EstInit == [prev_ac |-> NaN, prev_atr |-> NaN, prev_sd |-> NaN, sd_list |-> <<>>]

RatInit == [rfilt_prev |-> NaN, prev_rng_smooth |-> NaN,
            filt_change_count |-> 0, filt_change_values |-> <<>>]

\* self.filt = np.zeros(n), ...
OutInit(n) == [filt |-> [k \in 1..n |-> Zero], h_band |-> [k \in 1..n |-> Zero],
               l_band |-> [k \in 1..n |-> Zero], fdir |-> [k \in 1..n |-> 0],
               upward |-> [k \in 1..n |-> 0], downward |-> [k \in 1..n |-> 0]]

RunInit(d) == [i |-> 0, est |-> EstInit, rat |-> RatInit, out |-> OutInit(Len(d)), log |-> <<>>]

\* one iteration of the loop, for the bar with index s.i
Iteration(c, d, s) ==
  LET k == s.i
      h_val == MovHigh(c, d, k)
      l_val == MovLow(c, d, k)
      x == Div(Add(h_val, l_val), Num(2))
      rs == rng_size(c, d, x, k, s.est)
      rf == rng_filt(c, h_val, l_val, rs.rng_size, s.rat)
      filt_before == IF k = 0 THEN Zero ELSE s.out.filt[k]
      fdir_before == IF k = 0 THEN 0 ELSE s.out.fdir[k]
      fdir_i == Direction(k, rf.rng_filt_value, filt_before, fdir_before)
  IN  [i |-> k + 1,
       est |-> rs.est,
       rat |-> rf.rat,
       out |-> [filt |-> [s.out.filt EXCEPT ![k + 1] = rf.rng_filt_value],
                h_band |-> [s.out.h_band EXCEPT ![k + 1] = rf.hi_band],
                l_band |-> [s.out.l_band EXCEPT ![k + 1] = rf.lo_band],
                fdir |-> [s.out.fdir EXCEPT ![k + 1] = fdir_i],
                upward |-> [s.out.upward EXCEPT ![k + 1] = Upward(fdir_i)],
                downward |-> [s.out.downward EXCEPT ![k + 1] = Downward(fdir_i)]],
       log |-> Append(s.log,
                 [h |-> h_val, l |-> l_val, x |-> x,
                  rng_size_value |-> rs.rng_size,
                  prev_rng_smooth |-> rf.rat.prev_rng_smooth,
                  r |-> rf.r, rfilt |-> rf.rfilt,
                  rfilt_before |-> s.rat.rfilt_prev,
                  values_before |-> s.rat.filt_change_values,
                  count_before |-> s.rat.filt_change_count,
                  filt_changed |-> rf.filt_changed])]

\* the first lines of run(): the result arrays and the loop's locals
RunStart ==
  /\ pc = "constructed"
  /\ pc' = "loop"
  /\ i' = 0
  /\ est' = EstInit
  /\ rat' = RatInit
  /\ out' = OutInit(Len(data))
  /\ log' = <<>>
  /\ UNCHANGED <<cfg, data>>

\* the iteration raises: Cond_EMA divides by rng_per + 1 in rng_size, and by
\* smooth_per + 1 in rng_filt (after rng_size has returned)
IterationRaises(c) == EmaRaises(c.rng_per) \/ EmaRaises(c.smooth_per)

Step ==
  /\ pc = "loop"
  /\ i < Len(data)
  /\ ~IterationRaises(cfg)
  /\ \E s \in {Iteration(cfg, data, [i |-> i, est |-> est, rat |-> rat, out |-> out, log |-> log])} :
         /\ i' = s.i
         /\ est' = s.est
         /\ rat' = s.rat
         /\ out' = s.out
         /\ log' = s.log
  /\ UNCHANGED <<cfg, data, pc>>

StepRaise ==
  /\ pc = "loop"
  /\ i < Len(data)
  /\ IterationRaises(cfg)
  /\ pc' = "error"
  /\ est' = IF EmaRaises(cfg.rng_per) THEN est
            ELSE LET h_val == MovHigh(cfg, data, i)
                     l_val == MovLow(cfg, data, i)
                 IN  rng_size(cfg, data, Div(Add(h_val, l_val), Num(2)), i, est).est
  /\ UNCHANGED <<cfg, data, i, rat, out, log>>

\* the loop is over: the result columns are appended to self.data
Finish ==
  /\ pc = "loop"
  /\ i = Len(data)
  /\ pc' = "done"
  /\ UNCHANGED <<cfg, data, i, est, rat, out, log>>

(***************************************************************************)
(* Inputs.                                                                 *)
(***************************************************************************)
Bar(hh, ll, cc) == [high |-> hh, low |-> ll, close |-> cc]

\* a flat bar at 1, and a bar from 1 to 3 that closes at 2
Bars == {Bar(Num(1), Num(1), Num(1)), Bar(Num(3), Num(1), Num(2))}

\* bars with a field that is not a finite number
BadBars == {Bar(Num(3), Num(1), NaN), Bar(PosInf, Num(1), Num(1))}

DataOver(B, n) == UNION {[1..m -> B] : m \in 0..n}

Periods == 1..MaxPer

Configs(FT, MS, SC, PER, SPER, APER) ==
  [f_type : FT, mov_src : MS, rng_qty : {Num(1)}, rng_scale : SC,
   rng_per : PER, smooth_range : BOOLEAN, smooth_per : SPER,
   av_vals : BOOLEAN, av_samples : APER]

\* the configurations of the data model: known enum values, positive periods
\* (the smoothing period is MaxPer, which smooths: k = 2 / (MaxPer + 1) < 1)
ValidConfigs == Configs(FTypes, MovSrcs, RngScales, Periods, {MaxPer}, Periods)

ValidConfig(c) ==
  /\ c.f_type \in FTypes
  /\ c.mov_src \in MovSrcs
  /\ c.rng_scale \in RngScales
  /\ c.rng_per > 0
  /\ c.smooth_per > 0
  /\ c.av_samples > 0

\* configurations with unknown enum values and periods that are not positive
AnyConfigs ==
  Configs(FTypes \cup {"Type 3"}, MovSrcs \cup {"Open"}, RngScales \cup {"Percent"},
          {-1, 0, 1}, {-1, 1}, {0, 1})

FiniteBar(b) == IsFinite(b.high) /\ IsFinite(b.low) /\ IsFinite(b.close)

InitWith(C, D) ==
  /\ cfg \in C
  /\ data \in D
  /\ pc = "constructed"
  /\ i = 0
  /\ est = EstInit
  /\ rat = RatInit
  /\ out = OutInit(0)
  /\ log = <<>>

Init == InitWith(ValidConfigs, DataOver(Bars, MaxBars))

Next == RunStart \/ Step \/ Finish

Spec == Init /\ [][Next]_vars

\* runs over any configuration, valid or not, on one bar
InitConfig == InitWith(AnyConfigs, [1..1 -> Bars])

NextConfig == RunStart \/ Step \/ StepRaise \/ Finish

SpecConfig == InitConfig /\ [][NextConfig]_vars

\* runs over any input, with bars that are not finite
InitInput ==
  InitWith(Configs(FTypes, MovSrcs, RngScales, {1}, {1}, {1}),
           DataOver(Bars \cup BadBars, 2))

SpecInput == InitInput /\ [][Next]_vars

\* runs with every period at MaxPer
InitPrefix ==
  InitWith(Configs(FTypes, MovSrcs, RngScales, {MaxPer}, {MaxPer}, {MaxPer}),
           DataOver(Bars, MaxBars))

SpecPrefix == InitPrefix /\ [][Next]_vars

(***************************************************************************)
(* Properties.  log[k], out.filt[k], ... belong to the bar with index      *)
(* k - 1 of the program; Done is the set of bars processed so far.         *)
(***************************************************************************)
Done == 1..Len(log)

\* the values after bar k: those bar k + 1 started from, or the current ones
RfiltPrevAfter(k) == IF k < Len(log) THEN log[k + 1].rfilt_before ELSE rat.rfilt_prev

ValuesAfter(k) == IF k < Len(log) THEN log[k + 1].values_before ELSE rat.filt_change_values

CountAfter(k) == IF k < Len(log) THEN log[k + 1].count_before ELSE rat.filt_change_count

\* C1: direction[0] = 0; for i > 0 the direction is 1 when the emitted filter
\* value rose, -1 when it fell, and the previous direction when the two
\* emitted filter values are equal.
C1_DirectionRule ==
  \A k \in Done :
    /\ k = 1 => out.fdir[k] = 0
    /\ k > 1 =>
         /\ Gt(out.filt[k], out.filt[k - 1]) => out.fdir[k] = 1
         /\ Lt(out.filt[k], out.filt[k - 1]) => out.fdir[k] = -1
         /\ Eq(out.filt[k], out.filt[k - 1]) => out.fdir[k] = out.fdir[k - 1]

\* a rise on the second bar and a tie on the third, which carries the 1
C1_Witness ==
  /\ Len(log) = 3
  /\ Gt(out.filt[2], out.filt[1])
  /\ Eq(out.filt[3], out.filt[2])
  /\ out.fdir[3] = 1

\* C2: in Type 1 mode with a defined previous anchor: the anchor becomes h - r
\* when h - r > anchor_prev (tested first), else l + r when l + r < anchor_prev,
\* else it is unchanged; it is unchanged whenever h - r <= anchor_prev <= l + r.
C2_Type1Rule ==
  \A k \in Done :
    LET e == log[k]
        prev == e.rfilt_before
        up == Sub(e.h, e.r)
        dn == Add(e.l, e.r)
    IN  (cfg.f_type = "Type 1" /\ ~IsNaN(prev)) =>
          /\ Gt(up, prev) => e.rfilt = up
          /\ (~Gt(up, prev) /\ Lt(dn, prev)) => e.rfilt = dn
          /\ (~Gt(up, prev) /\ ~Lt(dn, prev)) => e.rfilt = prev
          /\ (Le(up, prev) /\ Le(prev, dn)) => e.rfilt = prev

\* both breakout tests hold on one bar, and the upward one wins
C2_Witness ==
  \E k \in Done :
    LET e == log[k]
    IN  /\ cfg.f_type = "Type 1"
        /\ ~IsNaN(e.rfilt_before)
        /\ Gt(Sub(e.h, e.r), e.rfilt_before)
        /\ Lt(Add(e.l, e.r), e.rfilt_before)
        /\ e.rfilt = Sub(e.h, e.r)

\* delta is a whole multiple of r
WholeMultiple(delta, r) ==
  /\ IsFinite(delta)
  /\ IsFinite(r)
  /\ IF r = Zero THEN delta = Zero ELSE Div(delta, r)[2] = 1

\* C3: in Type 2 mode with a defined previous anchor, for every effective range
\* r the estimator supplies: the anchor moves up by floor(|h - anchor_prev| / r) * r
\* when h >= anchor_prev + r, else down by floor(|l - anchor_prev| / r) * r when
\* l <= anchor_prev - r, else it is unchanged; so every change of the anchor is
\* a whole multiple of that bar's r.
C3_Type2Rule ==
  \A k \in Done :
    LET e == log[k]
        prev == e.rfilt_before
    IN  (cfg.f_type = "Type 2" /\ ~IsNaN(prev)) =>
          /\ WholeMultiple(Sub(e.rfilt, prev), e.r)
          /\ (~Ge(e.h, Add(prev, e.r)) /\ ~Le(e.l, Sub(prev, e.r))) => e.rfilt = prev

\* C4: the emitted bands are filterValue + r and filterValue - r, r being the
\* effective range of the bar (the smoothed range if smooth_range, else the raw
\* range size), with averaging on or off; so the bands are symmetric around
\* the emitted filter value.
C4_BandsRule ==
  \A k \in Done :
    LET e == log[k]
        r == IF cfg.smooth_range THEN e.prev_rng_smooth ELSE e.rng_size_value
    IN  /\ e.r = r
        /\ out.h_band[k] = Add(out.filt[k], r)
        /\ out.l_band[k] = Sub(out.filt[k], r)
        /\ IsFinite(out.filt[k]) =>
             Sub(out.h_band[k], out.filt[k]) = Sub(out.filt[k], out.l_band[k])

\* averaging is on, the emitted value differs from the anchor, and the range
\* is smoothed and differs from the raw range size
C4_Witness ==
  \E k \in Done :
    /\ cfg.av_vals
    /\ cfg.smooth_range
    /\ IsFinite(out.filt[k])
    /\ out.filt[k] # log[k].rfilt
    /\ log[k].r # log[k].rng_size_value
    /\ Gt(log[k].r, Zero)

\* the values pushed so far into the two windows, in push order
SdPushed == [k \in Done |-> log[k].x]

FcPushed ==
  LET changed == SelectSeq(log, LAMBDA e : cfg.av_vals /\ e.filt_changed)
  IN  [k \in 1..Len(changed) |-> changed[k].rfilt]

LastN(s, n) == IF Len(s) <= n THEN s ELSE SubSeq(s, Len(s) - n + 1, Len(s))

\* C5: after every bar the standard-deviation window holds at most rng_per
\* values and the filter-change window at most av_samples values, and each
\* holds the most recently pushed values in push order (the oldest is evicted).
C5_WindowsRule ==
  /\ Len(est.sd_list) <= cfg.rng_per
  /\ Len(rat.filt_change_values) <= cfg.av_samples
  /\ est.sd_list = LastN(SdPushed, cfg.rng_per)
  /\ rat.filt_change_values = LastN(FcPushed, cfg.av_samples)

\* both windows have evicted, and the evicted values differ from the kept ones
C5_Witness ==
  /\ Len(SdPushed) > cfg.rng_per
  /\ SdPushed[1] # SdPushed[Len(SdPushed)]
  /\ Len(FcPushed) > cfg.av_samples
  /\ FcPushed[1] # FcPushed[Len(FcPushed)]

\* C6: a configuration with an unknown filter type, movement source or range
\* scale, or a period or sample count that is not positive, is rejected before
\* any bar is processed: no bar is processed and the run does not complete.
C6_ConfigRejected == ~ValidConfig(cfg) => (Len(log) = 0 /\ pc # "done")

\* C7: a run over an empty input, or over an input with a bar that has a field
\* that is not finite, ends in an error: it never completes, and the offending
\* bar is never processed.
C7_InputRejected ==
  /\ (Len(data) = 0 \/ \E k \in 1..Len(data) : ~FiniteBar(data[k])) => pc # "done"
  /\ \A k \in Done : FiniteBar(data[k])

\* the run of the loop over the first k bars of d
RECURSIVE RunTo(_, _, _)
RunTo(c, d, k) == IF k = 0 THEN RunInit(d) ELSE Iteration(c, d, RunTo(c, d, k - 1))

\* the result record of bar k in run state s
BarResult(s, k) ==
  [rangeSize |-> s.log[k].rng_size_value, filterValue |-> s.out.filt[k],
   highBand |-> s.out.h_band[k], lowBand |-> s.out.l_band[k],
   direction |-> s.out.fdir[k], isUpward |-> s.out.upward[k],
   isDownward |-> s.out.downward[k]]

\* C8: the run produces one result per bar, and result k is the one a run
\* over the first k bars alone produces: it is determined by bars 1..k,
\* whatever the later bars are.
C8_PrefixRule ==
  /\ pc = "done" => (Len(log) = Len(data) /\ Len(out.filt) = Len(data))
  /\ \A k \in Done :
       BarResult([log |-> log, out |-> out], k)
         = BarResult(RunTo(cfg, SubSeq(data, 1, k), k), k)

\* a finished run whose last bar differs from its first
C8_Witness ==
  /\ pc = "done"
  /\ Len(data) = MaxBars
  /\ data[Len(data)] # data[1]
  /\ cfg.rng_scale = "Average Change"

\* C9: with averaging on, the anchor is pushed and the counter incremented
\* exactly when the anchor differs from the previous one (an undefined previous
\* anchor counts); the emitted value is the mean of the window when it is not
\* empty, else the anchor; and the value kept for the next bar is the anchor,
\* not the emitted average.
C9_AveragingRule ==
  \A k \in Done :
    LET e == log[k]
        changed == Ne(e.rfilt, e.rfilt_before)
        after == ValuesAfter(k)
    IN  cfg.av_vals =>
          /\ changed =>
               /\ Len(after) > 0
               /\ after[Len(after)] = e.rfilt
               /\ SubSeq(after, 1, Len(after) - 1)
                    = LastN(e.values_before, cfg.av_samples - 1)
               /\ CountAfter(k) = e.count_before + 1
          /\ ~changed => (after = e.values_before /\ CountAfter(k) = e.count_before)
          /\ out.filt[k] = IF after # <<>> THEN Mean(after) ELSE e.rfilt
          /\ RfiltPrevAfter(k) = e.rfilt

\* an unchanged anchor after two changes: the window holds both, the emitted
\* value is their mean and differs from the anchor that is kept
C9_Witness ==
  /\ cfg.av_vals
  /\ Len(log) = 3
  /\ ~log[3].filt_changed
  /\ Len(rat.filt_change_values) = 2
  /\ rat.filt_change_count = 2
  /\ IsFinite(out.filt[3])
  /\ out.filt[3] # rat.rfilt_prev

\* C10: the direction is -1, 0 or 1; once it is 1 or -1 it is never 0 again on
\* a later bar; the up and down flags are never both set.
C10_DirectionPrefix ==
  \A k \in Done :
    /\ out.fdir[k] \in {-1, 0, 1}
    /\ \A j \in 1..(k - 1) : out.fdir[j] # 0 => out.fdir[k] # 0
    /\ ~(out.upward[k] = 1 /\ out.downward[k] = 1)
    /\ (out.upward[k] = 1) = (out.fdir[k] = 1)
    /\ (out.downward[k] = 1) = (out.fdir[k] = -1)

\* a fall on the second bar and no change of the filter value on the third
C10_Witness ==
  /\ Len(log) = 3
  /\ out.fdir[2] = -1
  /\ ~Lt(out.filt[3], out.filt[2])
  /\ ~Gt(out.filt[3], out.filt[2])
  /\ out.downward[3] = 1

====
